---- MODULE Spec2Model ----
(***************************************************************************)
(* A model of the AIOps host agent (src/agent/src): the command executor,  *)
(* the identity switch, the script executor, the security manager and the  *)
(* HTTP server in front of them.                                           *)
(*                                                                         *)
(* Text is a sequence of string tokens: "x" is one unit of captured        *)
(* output, and a formatted message is the sequence of its literal parts    *)
(* and its interpolated values.                                            *)
(***************************************************************************)
EXTENDS Integers, Sequences, FiniteSets, TLC

VARIABLES
    platform,         \* CommandExecutor.platform / UserSwitch.platform
    timeout,          \* CommandExecutor.timeout
    max_output_size,  \* CommandExecutor.max_output_size
    entry,            \* the entry point of the call in progress
    pc,               \* the caller's position: idle, communicate, returned
    req,              \* the arguments of the call in progress
    popen,            \* command lines handed to subprocess.Popen by this call
    idchecks,         \* users looked up with subprocess.run(['id', user])
    child,            \* the child spawned by Popen, as the OS sees it
    steps,            \* what the call did to the child, in order
    result,           \* the value the call returned
    calls,            \* calls made so far
    temp_files,       \* the scratch directory temp_dir: path -> file
    sx,               \* per worker: the script execution it is running
    scalls,           \* script executions started so far
    jwt_secret,       \* SecurityManager.jwt_secret
    jwt_expire_hours, \* SecurityManager.jwt_expire_hours
    now,              \* time.time(), in whole seconds
    ticks,            \* clock advances so far
    token,            \* the token in the caller's hands
    gen,              \* the last issuing call: its arguments and what it returned
    check,            \* the last verifying call: its arguments and what it returned
    aes_key,          \* SecurityManager.aes_key, as bytes
    ciphertext,       \* the encrypted string in the caller's hands
    plaintext,        \* the string that was encrypted into it
    origin,           \* how the ciphertext came about: fresh, corrupted, other_key
    decrypted,        \* what decrypt_data did with it
    request,          \* the HTTP request the server is handling
    response,         \* the status and body it answered with
    invoked,          \* the component calls the handler made for it
    warnings,         \* the warnings logged while handling it
    validated,        \* the last direct validate_command call and its value
    environ,          \* os.environ of the agent process
    env_call,         \* the last _run_command call: its overlay and the child's environment
    config,           \* Config._config, the process-wide configuration
    threads,          \* per thread: the Config call it is in and what it returned
    classified,       \* the last classification: what was classified and as which kind
    uploads,          \* the uploaded files saved in temp_dir: filename -> file
    handlers          \* per request thread: the script-file request it is handling

execVars == <<platform, timeout, max_output_size, entry, pc, req, popen,
              idchecks, child, steps, result, calls>>
scriptVars == <<temp_files, sx, scalls>>
jwtVars == <<jwt_secret, jwt_expire_hours, now, ticks, token, gen, check>>

cryptoVars == <<aes_key, ciphertext, plaintext, origin, decrypted>>

serverVars == <<request, response, invoked, warnings, validated>>

envVars == <<environ, env_call>>

configVars == <<config, threads>>

classifyVars == <<classified>>

uploadVars == <<uploads, handlers>>

vars == <<execVars, scriptVars, jwtVars, cryptoVars, serverVars, envVars, configVars, classifyVars, uploadVars>>
notExec == <<scriptVars, jwtVars, cryptoVars, serverVars, envVars, configVars, classifyVars, uploadVars>>
notScript == <<execVars, jwtVars, cryptoVars, serverVars, envVars, configVars, classifyVars, uploadVars>>
notJwt == <<execVars, scriptVars, cryptoVars, serverVars, envVars, configVars, classifyVars, uploadVars>>
notCrypto == <<execVars, scriptVars, jwtVars, serverVars, envVars, configVars, classifyVars, uploadVars>>
notServer == <<execVars, scriptVars, jwtVars, cryptoVars, envVars, configVars, classifyVars, uploadVars>>
notEnv == <<execVars, scriptVars, jwtVars, cryptoVars, serverVars, configVars, classifyVars, uploadVars>>
notConfig == <<execVars, scriptVars, jwtVars, cryptoVars, serverVars, envVars, classifyVars, uploadVars>>
notClassify == <<execVars, scriptVars, jwtVars, cryptoVars, serverVars, envVars, configVars, uploadVars>>
notUpload == <<execVars, scriptVars, jwtVars, cryptoVars, serverVars, envVars, configVars, classifyVars>>

----------------------------------------------------------------------------
(* Bounds of the model *)

MaxOutLen == 3
MaxCalls == 2
MaxScriptCalls == 2
MaxTicks == 2
MaxPlainLen == 2

(* Program constants *)

DefaultTimeout == 300
DefaultExpireHours == 24
SecondsPerHour == 3600

----------------------------------------------------------------------------
(* The host: accounts, directories, what a child can do *)

None == "None"
Platforms == {"linux", "windows", "darwin"}
ExistingUsers == {"alice"}
Users == {"alice", "ghost"}
Commands == {"ls", "sleep"}
ExistingDirs == {"/srv"}
WorkingDirs == {None, "/srv", "/missing"}
\* process.returncode: an exit status, or -N for a child killed by signal N
ReturnCodes == {0, 1, 127, -1}
Timeouts == {5, DefaultTimeout}
OutputSizes == {1, 2}

RECURSIVE Units(_)
Units(n) == IF n = 0 THEN <<>> ELSE <<"x">> \o Units(n - 1)

Texts == {Units(n) : n \in 0..MaxOutLen}

NoChild == [state |-> "none", rc |-> 0, stdout |-> <<>>, stderr |-> <<>>]
NoResult == [none |-> TRUE]
NoReq == [command |-> None, user |-> None, working_dir |-> None]

----------------------------------------------------------------------------
(* CommandExecutor *)

\* _prepare_command_with_user: the command line that runs `command` as `user`
prepare_command_with_user(command, user) ==
    IF platform = "linux"
    THEN <<"su", "-", user, "-c", command>>
    ELSE <<command>>

\* the command line execute hands to _run_command
prepared_command(command, user) ==
    IF user # None THEN prepare_command_with_user(command, user)
    ELSE <<command>>

\* (mutant) a stream of exactly max_output_size units is cut as well
truncate_inclusive(text, marker) ==
    IF Len(text) >= max_output_size
    THEN SubSeq(text, 1, max_output_size) \o <<marker>>
    ELSE text

\* _run_command's cap on one captured stream
truncate(text, marker) ==
    IF Len(text) > max_output_size
    THEN SubSeq(text, 1, max_output_size) \o <<marker>>
    ELSE text

\* execute's return value after _run_command returned (stdout, stderr, rc)
run_result(stdout, stderr, return_code) ==
    [success |-> TRUE,
     output |-> truncate(stdout, "[output truncated]"),
     error |-> truncate(stderr, "[error output truncated]"),
     return_code |-> return_code]

\* (mutant) the timeout is left to the generic handler, which reports str(e)
timeout_result_generic(seconds) ==
    [success |-> FALSE, output |-> <<>>, error |-> <<"timed out">>,
     return_code |-> -1]

\* execute's return value in the subprocess.TimeoutExpired handler
timeout_result(seconds) ==
    [success |-> FALSE,
     output |-> <<>>,
     error |-> <<"command timed out (over ", ToString(seconds), " seconds)">>,
     return_code |-> -1]

\* execute's return value in the generic Exception handler
exception_result(message) ==
    [success |-> FALSE, output |-> <<>>, error |-> message, return_code |-> -1]

\* execute, up to the Popen call in _run_command: the child is spawned, or
\* Popen raises because the working directory does not exist
execute_call(command, user, working_dir) ==
    /\ pc = "idle"
    /\ calls < MaxCalls
    /\ calls' = calls + 1
    /\ entry' = "execute"
    /\ req' = [command |-> command, user |-> user, working_dir |-> working_dir]
    /\ idchecks' = {}
    /\ IF working_dir # None /\ working_dir \notin ExistingDirs
       THEN /\ popen' = <<>>
            /\ child' = NoChild
            /\ steps' = <<"spawn_failed">>
            /\ result' = exception_result(<<"No such file or directory: ", working_dir>>)
            /\ pc' = "returned"
       ELSE /\ popen' = <<prepared_command(command, user)>>
            /\ child' = [NoChild EXCEPT !.state = "running"]
            /\ steps' = <<"spawn">>
            /\ result' = NoResult
            /\ pc' = "communicate"
    /\ UNCHANGED <<platform, timeout, max_output_size, notExec>>

\* the child terminates on its own
child_exit(rc, out, err) ==
    /\ child.state = "running"
    /\ child' = [state |-> "exited", rc |-> rc, stdout |-> out, stderr |-> err]
    /\ UNCHANGED <<platform, timeout, max_output_size, entry, pc, req, popen,
                   idchecks, steps, result, calls, notExec>>

\* _run_command: communicate returns, the streams are capped, execute returns
communicate_return ==
    /\ pc = "communicate"
    /\ entry = "execute"
    /\ child.state = "exited"
    /\ steps' = Append(steps, "communicate")
    /\ result' = run_result(child.stdout, child.stderr, child.rc)
    /\ pc' = "returned"
    /\ UNCHANGED <<platform, timeout, max_output_size, entry, req, popen,
                   idchecks, child, calls, notExec>>

\* _run_command: the deadline passes with the child still running;
\* process.kill(), process.wait(), re-raise, and execute's handler returns
communicate_timeout ==
    /\ pc = "communicate"
    /\ entry = "execute"
    /\ child.state = "running"
    /\ child' = [child EXCEPT !.state = "reaped"]
    /\ steps' = steps \o <<"timeout", "kill", "wait">>
    /\ result' = timeout_result(timeout)
    /\ pc' = "returned"
    /\ UNCHANGED <<platform, timeout, max_output_size, entry, req, popen,
                   idchecks, calls, notExec>>

\* the caller takes the result; the next request may come in
next_call ==
    /\ pc = "returned"
    /\ calls < MaxCalls
    /\ pc' = "idle"
    /\ entry' = "none"
    /\ req' = NoReq
    /\ popen' = <<>>
    /\ idchecks' = {}
    /\ child' = NoChild
    /\ steps' = <<>>
    /\ result' = NoResult
    /\ UNCHANGED <<platform, timeout, max_output_size, calls, notExec>>

----------------------------------------------------------------------------
(* UserSwitch *)

\* _check_user_exists_linux: `id user` exits 0
check_user_exists_linux(user) == user \in ExistingUsers

\* _execute_as_user_linux: the inner command, after the optional cd
full_command(command, working_dir) ==
    IF working_dir # None
    THEN <<"cd", working_dir, "&&", command>>
    ELSE <<command>>

\* _execute_as_user_linux: the su command line
su_command(command, user, working_dir) ==
    <<"su", "-l", user, "-c">> \o full_command(command, working_dir)

\* _execute_as_user_windows: the runas command line
runas_command(command, user) == <<"runas", "/user:", user, command>>

\* _execute_as_user_linux: the tuple returned for an unknown user
user_not_found(user) ==
    [output |-> <<>>, error |-> <<"user does not exist: ", user>>, return_code |-> -1]

\* execute_as_user: the tuple returned on a platform it does not know
unsupported_platform ==
    [output |-> <<>>, error |-> <<"unsupported platform: ", platform>>, return_code |-> -1]

\* execute_as_user, up to the Popen call of the platform's variant
execute_as_user_call(command, user, working_dir) ==
    /\ pc = "idle"
    /\ calls < MaxCalls
    /\ calls' = calls + 1
    /\ entry' = "execute_as_user"
    /\ req' = [command |-> command, user |-> user, working_dir |-> working_dir]
    /\ idchecks' = IF platform = "linux" THEN {user} ELSE {}
    /\ IF platform = "linux" /\ ~check_user_exists_linux(user)
       THEN /\ popen' = <<>>
            /\ child' = NoChild
            /\ steps' = <<"user_missing">>
            /\ result' = user_not_found(user)
            /\ pc' = "returned"
       ELSE IF platform \notin {"linux", "windows"}
       THEN /\ popen' = <<>>
            /\ child' = NoChild
            /\ steps' = <<"unsupported">>
            /\ result' = unsupported_platform
            /\ pc' = "returned"
       ELSE /\ popen' = IF platform = "linux"
                        THEN <<su_command(command, user, working_dir)>>
                        ELSE <<runas_command(command, user)>>
            /\ child' = [NoChild EXCEPT !.state = "running"]
            /\ steps' = <<"spawn">>
            /\ result' = NoResult
            /\ pc' = "communicate"
    /\ UNCHANGED <<platform, timeout, max_output_size, notExec>>

\* _execute_as_user_linux / _windows: communicate() returns, without a deadline
communicate_return_as_user ==
    /\ pc = "communicate"
    /\ entry = "execute_as_user"
    /\ child.state = "exited"
    /\ steps' = Append(steps, "communicate")
    /\ result' = [output |-> child.stdout, error |-> child.stderr,
                  return_code |-> child.rc]
    /\ pc' = "returned"
    /\ UNCHANGED <<platform, timeout, max_output_size, entry, req, popen,
                   idchecks, child, calls, notExec>>

----------------------------------------------------------------------------
(* ScriptExecutor *)

(* A script is a sequence of lines and a line a sequence of pieces; a piece *)
(* is a run of characters that the code's substring tests never split.      *)
Workers == {1, 2}
Names == {"aaaaaaaa", "bbbbbbbb"}
Scripts ==
    { << <<"#!/", "bin/", "ba", "sh">>, <<"echo", " test">> >>,
      << <<"#!/", "usr/bin/env ", "pw", "sh">>, <<"Write-Host", " hi">> >>,
      << <<"import ", "os">> >>,
      << <<"Get-", "Date">> >>,
      << <<"echo", " ", "\"\"\"">> >>,
      << <<"echo", " ", "<lone surrogate>">> >>,
      << <<"printf ", "'a", "\\t", "b'">> >> }

\* `pat in line`: pat is a contiguous run of the line's pieces
Has(line, pat) ==
    \E i \in 1..Len(line) :
        /\ i + Len(pat) - 1 <= Len(line)
        /\ SubSeq(line, i, i + Len(pat) - 1) = pat

\* `pat in script_content`
HasAnywhere(script, pat) == \E l \in 1..Len(script) : Has(script[l], pat)

\* _detect_script_type_from_content
detect_script_type_from_content(script) ==
    LET first_line == script[1]
        shebang == Len(first_line) > 0 /\ first_line[1] = "#!/"
    IN  IF shebang /\ Has(first_line, <<"python">>) THEN "python"
        ELSE IF shebang /\ (Has(first_line, <<"ba", "sh">>) \/ Has(first_line, <<"sh">>))
        THEN "shell"
        ELSE IF shebang /\ (Has(first_line, <<"power", "sh", "ell">>)
                            \/ Has(first_line, <<"pw", "sh">>))
        THEN "powershell"
        ELSE IF first_line[1] = "import " \/ HasAnywhere(script, <<"def ">>)
        THEN "python"
        ELSE IF first_line[1] \in {"#!", "#!/"} \/ HasAnywhere(script, <<"echo">>)
        THEN "shell"
        ELSE IF HasAnywhere(script, <<"Write-Host">>) \/ HasAnywhere(script, <<"Get-">>)
        THEN "powershell"
        ELSE "shell"

\* _create_temp_script / execute_dynamic_wrapper: the extension of a kind
extension(script_type) ==
    IF script_type = "python" THEN ".py"
    ELSE IF script_type = "shell" THEN ".sh"
    ELSE IF script_type = "powershell" THEN ".ps1"
    ELSE ".sh"

\* execute_dynamic_wrapper: the interpreter of a kind
interpreter(script_type) ==
    IF script_type = "python" THEN "python"
    ELSE IF script_type = "shell" THEN "bash"
    ELSE IF script_type = "powershell"
    THEN (IF platform = "windows" THEN "powershell" ELSE "pwsh")
    ELSE "bash"

\* _execute_python_script / _shell_ / _powershell_: the command line for a file
script_command(script_type, path) ==
    IF script_type = "python" THEN <<"python", path>>
    ELSE IF script_type = "shell" THEN <<"bash", path>>
    ELSE IF script_type = "powershell"
    THEN (IF platform = "windows" THEN <<"powershell", "-File", path>>
          ELSE <<"pwsh", "-File", path>>)
    ELSE <<path>>

\* f.write(script_content) with encoding='utf-8': a lone surrogate cannot be encoded
utf8_encodable(script) == ~HasAnywhere(script, <<"<lone surrogate>">>)

\* the wrapper program's string literal """{script_content}""", as Python reads it:
\* a triple quote inside the text ends the literal early and the program does not parse
literal_parses(script) == ~HasAnywhere(script, <<"\"\"\"">>)

\* the value Python gives the literal """{script_content}""" when it parses:
\* a backslash escape in the text is replaced by the character it stands for
python_literal(script) ==
    [l \in 1..Len(script) |->
        [i \in 1..Len(script[l]) |->
            IF script[l][i] = "\\t" THEN "\t" ELSE script[l][i]]]

\* the wrapper program after subprocess.run: print(result.stdout), print of
\* result.stderr on a non-zero exit, sys.exit(result.returncode)
wrapper_program(run) ==
    [stdout |-> run.stdout \o <<"\n">>,
     stderr |-> IF run.rc # 0 THEN run.stderr \o <<"\n">> ELSE <<>>,
     rc |-> run.rc]

\* how the script's interpreter, run by the wrapper program, can end; or the
\* wrapper program is killed on execute's deadline while it runs
NoRun == [stdout |-> <<>>, stderr |-> <<>>, rc |-> 0, killed |-> FALSE, ran |-> FALSE]
ChildRuns ==
    { [stdout |-> <<"x">>, stderr |-> <<"x">>, rc |-> 0, killed |-> FALSE, ran |-> TRUE],
      [stdout |-> <<>>, stderr |-> <<"x">>, rc |-> 1, killed |-> FALSE, ran |-> TRUE],
      [stdout |-> <<>>, stderr |-> <<>>, rc |-> 0, killed |-> TRUE, ran |-> TRUE] }

\* CommandExecutor.execute's result for `python <wrapper program>`
wrapper_result(parses, found, run) ==
    IF ~parses THEN run_result(<<>>, <<"SyntaxError">>, 1)
    ELSE IF ~found THEN run_result(<<>>, <<"FileNotFoundError">>, 1)
    ELSE IF run.killed THEN timeout_result(timeout)
    ELSE run_result(wrapper_program(run).stdout, wrapper_program(run).stderr,
                    wrapper_program(run).rc)

\* _create_wrapper_script: the generated program, by the parts that are filled in
create_wrapper_script(script, temp_script_path, interp) ==
    [script_content |-> script, temp_script_path |-> temp_script_path,
     interpreter |-> interp]

\* the results CommandExecutor.execute can hand back for a script's command line
ScriptOutcomes ==
    { run_result(<<"x">>, <<>>, 0), run_result(<<>>, <<"x">>, 1),
      timeout_result(timeout) }

\* the programs the host has: no PowerShell on a POSIX host, no bash on Windows
Installed ==
    IF platform = "windows" THEN {"python", "powershell"} ELSE {"python", "bash"}

\* execute's result when the shell it spawned cannot find the program: the
\* shell's message on stderr and the shell's exit code
command_not_found(program) ==
    run_result(<<>>, <<program, ": not found">>,
               IF platform = "windows" THEN 1 ELSE 127)
NotFoundOutcomes == {command_not_found(p) : p \in {"bash", "pwsh", "powershell"}}

\* the results execute can hand back for the command line `cmd`
possible_results(cmd) ==
    IF cmd[1] \in Installed THEN ScriptOutcomes ELSE {command_not_found(cmd[1])}

\* what the interpreter was given: nothing yet, or a path that no longer exists
NotRun == <<>>
NoSuchFile == << <<"<no such file>">> >>

IdleExecution ==
    [pc |-> "idle", mode |-> "none", script |-> <<>>, path |-> None,
     wrapper_path |-> None, spawned |-> <<>>, ran |-> NotRun, run |-> NoRun,
     result |-> NoResult]

\* open(temp_path, 'w'): the file exists, empty, whoever held the path before
Opened(files, path, w) == (path :> [content |-> <<>>, owner |-> w]) @@ files
Written(files, path, w, text) == (path :> [content |-> text, owner |-> w]) @@ files
\* _cleanup_temp_file: os.remove if os.path.exists
cleanup_temp_file(files, path) == [q \in (DOMAIN files) \ {path} |-> files[q]]

\* execute_script_content, through _create_temp_script: on a failed write the
\* handler of execute_script_content returns, the path unknown to it
script_content_create(w, script, name) ==
    LET script_type == detect_script_type_from_content(script)
        temp_path == <<name, extension(script_type)>>
    IN  /\ sx[w].pc = "idle"
        /\ scalls < MaxScriptCalls
        /\ scalls' = scalls + 1
        /\ IF utf8_encodable(script)
           THEN /\ temp_files' = Written(temp_files, temp_path, w, script)
                /\ sx' = [sx EXCEPT ![w] =
                            [IdleExecution EXCEPT !.pc = "dispatch", !.mode = "content",
                                                  !.script = script, !.path = temp_path]]
           ELSE /\ temp_files' = Opened(temp_files, temp_path, w)
                /\ sx' = [sx EXCEPT ![w] =
                            [IdleExecution EXCEPT !.pc = "returned", !.mode = "content",
                                !.script = script,
                                !.result = exception_result(<<"codec can't encode">>)]]
        /\ UNCHANGED notScript

\* (mutant) execute_script_content runs the interpreter again when the first
\* run failed
script_content_dispatch_retrying(w, res) ==
    LET e == sx[w]
        cmd == script_command(detect_script_type_from_content(e.script), e.path)
    IN  /\ e.pc = "dispatch"
        /\ e.mode = "content"
        /\ res \in possible_results(cmd)
        /\ sx' = [sx EXCEPT ![w].pc = "cleanup",
                            ![w].spawned = IF res.success THEN <<cmd>> ELSE <<cmd, cmd>>,
                            ![w].result = res]
        /\ UNCHANGED <<temp_files, scalls, notScript>>

\* execute_script_content: the interpreter is run on the file and execute returns
script_content_dispatch(w, res) ==
    LET e == sx[w]
        script_type == detect_script_type_from_content(e.script)
    IN  /\ e.pc = "dispatch"
        /\ e.mode = "content"
        /\ res \in possible_results(script_command(script_type, e.path))
        /\ sx' = [sx EXCEPT ![w].pc = "cleanup",
                            ![w].spawned = Append(e.spawned, script_command(script_type, e.path)),
                            ![w].ran =
                                IF script_command(script_type, e.path)[1] \notin Installed
                                THEN NotRun
                                ELSE IF e.path \in DOMAIN temp_files
                                THEN temp_files[e.path].content ELSE NoSuchFile,
                            ![w].result = res]
        /\ UNCHANGED <<temp_files, scalls, notScript>>

\* execute_script_content: _cleanup_temp_file(temp_script_path), return result
script_content_cleanup(w) ==
    /\ sx[w].pc = "cleanup"
    /\ sx[w].mode = "content"
    /\ temp_files' = cleanup_temp_file(temp_files, sx[w].path)
    /\ sx' = [sx EXCEPT ![w].pc = "returned"]
    /\ UNCHANGED <<scalls, notScript>>

\* execute_dynamic_wrapper, through _create_temp_script of the wrapper program
wrapper_create(w, script, name, wrapper_name) ==
    LET original_type == detect_script_type_from_content(script)
        temp_script_path == <<name, extension(original_type)>>
        temp_python_script == <<wrapper_name, ".py">>
    IN  /\ sx[w].pc = "idle"
        /\ scalls < MaxScriptCalls
        /\ scalls' = scalls + 1
        /\ IF utf8_encodable(script)
           THEN /\ temp_files' =
                      Written(temp_files, temp_python_script, w,
                              create_wrapper_script(script, temp_script_path,
                                                    interpreter(original_type)))
                /\ sx' = [sx EXCEPT ![w] =
                            [IdleExecution EXCEPT !.pc = "dispatch", !.mode = "wrapper",
                                !.script = script, !.path = temp_script_path,
                                !.wrapper_path = temp_python_script]]
           ELSE /\ temp_files' = Opened(temp_files, temp_python_script, w)
                /\ sx' = [sx EXCEPT ![w] =
                            [IdleExecution EXCEPT !.pc = "returned", !.mode = "wrapper",
                                !.script = script,
                                !.result = exception_result(<<"codec can't encode">>)]]
        /\ UNCHANGED notScript

\* _execute_python_script_content: python runs the wrapper program, which writes
\* the script, runs its interpreter, removes the script and exits; on a timeout
\* it is killed after the write and before the remove
wrapper_dispatch(w, run) ==
    LET e == sx[w]
        parses == literal_parses(e.script)
        found == interpreter(detect_script_type_from_content(e.script)) \in Installed
    IN  /\ e.pc = "dispatch"
        /\ e.mode = "wrapper"
        /\ temp_files' =
              IF ~parses THEN temp_files
              ELSE IF ~found \/ run.killed
              THEN Written(temp_files, e.path, w, python_literal(e.script))
              ELSE cleanup_temp_file(temp_files, e.path)
        /\ sx' = [sx EXCEPT ![w].pc = "cleanup",
                            ![w].spawned = Append(e.spawned, <<"python", e.wrapper_path>>),
                            ![w].ran = IF parses /\ found THEN python_literal(e.script)
                                       ELSE NotRun,
                            ![w].run = IF parses /\ found THEN run ELSE NoRun,
                            ![w].result = wrapper_result(parses, found, run)]
        /\ UNCHANGED <<scalls, notScript>>

\* _execute_python_script_content and execute_dynamic_wrapper: both cleanups, return
wrapper_cleanup(w) ==
    /\ sx[w].pc = "cleanup"
    /\ sx[w].mode = "wrapper"
    /\ temp_files' = cleanup_temp_file(cleanup_temp_file(temp_files, sx[w].wrapper_path),
                                       sx[w].path)
    /\ sx' = [sx EXCEPT ![w].pc = "returned"]
    /\ UNCHANGED <<scalls, notScript>>

\* the script files on the host that callers name, and a path that is not there
ScriptFiles ==
    (<<"job", ".sh">> :> << <<"#!/", "bin/", "ba", "sh">>, <<"echo", " test">> >>)
    @@ (<<"report", ".ps1">> :> << <<"Get-", "Date">> >>)
    @@ (<<"tool", "">> :> << <<"print(", "1", ")">> >>)
FilePaths == (DOMAIN ScriptFiles) \cup {<<"gone", ".sh">>}

\* (mutant) the extension is looked at before the directive
detect_by_extension_first(first_line, ext) ==
    IF ext = ".py" THEN "python"
    ELSE IF ext \in {".sh", ".bash"} THEN "shell"
    ELSE IF ext = ".ps1" THEN "powershell"
    ELSE "shell"

\* _detect_script_type, given the file's first line and its suffix: the
\* directive on the first line, then the extension
detect_by_path(first_line, ext) ==
    LET shebang == Len(first_line) > 0 /\ first_line[1] = "#!/"
    IN  IF shebang /\ Has(first_line, <<"python">>) THEN "python"
        ELSE IF shebang /\ (Has(first_line, <<"ba", "sh">>) \/ Has(first_line, <<"sh">>))
        THEN "shell"
        ELSE IF shebang /\ (Has(first_line, <<"power", "sh", "ell">>)
                            \/ Has(first_line, <<"pw", "sh">>))
        THEN "powershell"
        ELSE IF ext = ".py" THEN "python"
        ELSE IF ext \in {".sh", ".bash"} THEN "shell"
        ELSE IF ext = ".ps1" THEN "powershell"
        ELSE "shell"

\* _detect_script_type(script_path): the first line is read from the file
detect_script_type(script_path) ==
    detect_by_path(ScriptFiles[script_path][1], script_path[2])

\* (mutant) the not-found result does not say which path
script_not_found_unnamed(script_path) ==
    [success |-> FALSE, output |-> <<>>,
     error |-> <<"script file does not exist">>, return_code |-> -1]

\* execute_script_file: the result for a path that does not exist
script_not_found(script_path) ==
    [success |-> FALSE, output |-> <<>>,
     error |-> <<"script file does not exist: ">> \o script_path,
     return_code |-> -1]

\* execute_script_file, up to the call of the script's interpreter
script_file_call(w, script_path) ==
    /\ sx[w].pc = "idle"
    /\ scalls < MaxScriptCalls
    /\ scalls' = scalls + 1
    /\ sx' = [sx EXCEPT ![w] =
                IF script_path \notin DOMAIN ScriptFiles
                THEN [IdleExecution EXCEPT !.pc = "returned", !.mode = "file",
                                           !.path = script_path,
                                           !.result = script_not_found(script_path)]
                ELSE [IdleExecution EXCEPT !.pc = "dispatch", !.mode = "file",
                                           !.path = script_path,
                                           !.script = ScriptFiles[script_path]]]
    /\ UNCHANGED <<temp_files, notScript>>

\* execute_script_file: the interpreter is run on the file and its result returned
script_file_dispatch(w, res) ==
    LET e == sx[w]
        cmd == script_command(detect_script_type(e.path), e.path)
    IN  /\ e.pc = "dispatch"
        /\ e.mode = "file"
        /\ res \in possible_results(cmd)
        /\ sx' = [sx EXCEPT ![w].pc = "returned",
                            ![w].spawned = Append(e.spawned, cmd),
                            ![w].ran = IF cmd[1] \in Installed
                                       THEN ScriptFiles[e.path] ELSE NotRun,
                            ![w].result = res]
        /\ UNCHANGED <<temp_files, scalls, notScript>>

\* the worker takes the next request
script_next_call(w) ==
    /\ sx[w].pc = "returned"
    /\ scalls < MaxScriptCalls
    /\ sx' = [sx EXCEPT ![w] = IdleExecution]
    /\ UNCHANGED <<temp_files, scalls, notScript>>

----------------------------------------------------------------------------
(* SecurityManager: tokens *)

(* A payload is a function from claim names to values.  A token is the     *)
(* sequence of its three segments <<header, body, signature>>: the body is  *)
(* the payload serialised as a list of <<name, value>> pairs, the signature *)
(* the HMAC of header and body under a secret (an ideal MAC: it equals      *)
(* another only when secret, header and body are the same).                 *)
ExpireHours == {1, DefaultExpireHours}
ApiKeys == {"key-1"}
PresentedKeys == {"key-1", "wrong-api-key"}
PermissionLists == {<<"exec:command">>, <<"exec:command", "read:logs">>}
RequiredLists == {<<>>, <<"exec:command">>, <<"exec:command", "admin:all">>}
Subjects == {"test_user"}
KeyOrder == <<"user_id", "role", "permissions", "api_key", "type", "exp", "iat">>
NoToken == <<>>
NoCall == [op |-> "none", token |-> <<>>]
\* Python's None where a payload is expected
NonePayload == [none |-> TRUE]

Put(payload, k, v) ==
    [x \in (DOMAIN payload) \cup {k} |-> IF x = k THEN v ELSE payload[x]]
Get(payload, k, default) == IF k \in DOMAIN payload THEN payload[k] ELSE default
Elements(list) == {list[i] : i \in 1..Len(list)}

\* json.dumps of a payload, inside jwt.encode
json_dumps(payload) ==
    LET keys == SelectSeq(KeyOrder, LAMBDA k : k \in DOMAIN payload)
    IN  [i \in 1..Len(keys) |-> <<keys[i], payload[keys[i]]>>]

\* json.loads of a body, inside jwt.decode
json_loads(body) ==
    [k \in {body[i][1] : i \in 1..Len(body)} |->
        body[CHOOSE i \in 1..Len(body) : body[i][1] = k][2]]

hmac_sha256(secret, header, body) == <<"HMAC-SHA256", secret, header, body>>

\* jwt.encode(payload, secret, algorithm='HS256')
jwt_encode(payload, secret) ==
    <<"HS256", json_dumps(payload), hmac_sha256(secret, "HS256", json_dumps(payload))>>

\* (mutant) an expiry test that still accepts the token at the instant it expires
jwt_decode_late(tok, secret, t) ==
    IF Len(tok) # 3 THEN [exc |-> "DecodeError"]
    ELSE IF tok[1] # "HS256" THEN [exc |-> "InvalidAlgorithmError"]
    ELSE IF tok[3] # hmac_sha256(secret, tok[1], tok[2])
    THEN [exc |-> "InvalidSignatureError"]
    ELSE LET payload == json_loads(tok[2])
         IN  IF "iat" \in DOMAIN payload /\ payload["iat"] > t
             THEN [exc |-> "ImmatureSignatureError"]
             ELSE IF "exp" \in DOMAIN payload /\ payload["exp"] < t
             THEN [exc |-> "ExpiredSignatureError"]
             ELSE [exc |-> "none", payload |-> payload]

\* jwt.decode(token, secret, algorithms=['HS256']) at time t: the segments, the
\* signature, then the registered claims
jwt_decode(tok, secret, t) ==
    IF Len(tok) # 3 THEN [exc |-> "DecodeError"]
    ELSE IF tok[1] # "HS256" THEN [exc |-> "InvalidAlgorithmError"]
    ELSE IF tok[3] # hmac_sha256(secret, tok[1], tok[2])
    THEN [exc |-> "InvalidSignatureError"]
    ELSE LET payload == json_loads(tok[2])
         IN  IF "iat" \in DOMAIN payload /\ payload["iat"] > t
             THEN [exc |-> "ImmatureSignatureError"]
             ELSE IF "exp" \in DOMAIN payload /\ payload["exp"] <= t
             THEN [exc |-> "ExpiredSignatureError"]
             ELSE [exc |-> "none", payload |-> payload]

\* the exception classes of jwt that derive from InvalidTokenError
InvalidTokenErrors ==
    {"DecodeError", "InvalidAlgorithmError", "InvalidSignatureError",
     "ImmatureSignatureError", "ExpiredSignatureError"}

\* verify_jwt_token: the payload, or None from each of the three handlers
verify_jwt_token(tok, t) ==
    LET r == jwt_decode(tok, jwt_secret, t)
    IN  IF r.exc = "none" THEN r.payload
        ELSE IF r.exc = "ExpiredSignatureError" THEN NonePayload
        ELSE IF r.exc \in InvalidTokenErrors THEN NonePayload
        ELSE NonePayload

\* `not payload`: None or an empty dict
Falsy(payload) == payload = NonePayload \/ DOMAIN payload = {}

\* generate_jwt_token: exp is stamped from the first reading of the clock (t1),
\* iat from the second (t2), both overwriting what the payload carried
stamped(payload, t1, t2) ==
    Put(Put(payload, "exp", t1 + jwt_expire_hours * SecondsPerHour), "iat", t2)

\* (mutant) the token embeds no capabilities
api_key_payload_no_permissions(user_id, permissions, api_key) ==
    [user_id |-> user_id, permissions |-> <<>>, api_key |-> api_key,
     type |-> "api_key"]

\* generate_api_key: the payload it builds
api_key_payload(user_id, permissions, api_key) ==
    [user_id |-> user_id, permissions |-> permissions, api_key |-> api_key,
     type |-> "api_key"]

\* (mutant) the token type is not checked
verify_api_key_any_type(api_key, tok, t) ==
    LET payload == verify_jwt_token(tok, t)
    IN  IF Falsy(payload) THEN FALSE
        ELSE IF Get(payload, "api_key", None) # api_key THEN FALSE
        ELSE TRUE

\* verify_api_key
verify_api_key(api_key, tok, t) ==
    LET payload == verify_jwt_token(tok, t)
    IN  IF Falsy(payload) THEN FALSE
        ELSE IF Get(payload, "api_key", None) # api_key THEN FALSE
        ELSE IF Get(payload, "type", None) # "api_key" THEN FALSE
        ELSE TRUE

\* (mutant) one required permission held is enough
validate_token_permissions_any(tok, required_permissions, t) ==
    LET payload == verify_jwt_token(tok, t)
    IN  IF Falsy(payload) THEN FALSE
        ELSE LET user_permissions == Get(payload, "permissions", <<>>)
             IN  \/ required_permissions = <<>>
                 \/ \E i \in 1..Len(required_permissions) :
                       required_permissions[i] \in Elements(user_permissions)

\* validate_token_permissions
validate_token_permissions(tok, required_permissions, t) ==
    LET payload == verify_jwt_token(tok, t)
    IN  IF Falsy(payload) THEN FALSE
        ELSE LET user_permissions == Get(payload, "permissions", <<>>)
             IN  \A i \in 1..Len(required_permissions) :
                    required_permissions[i] \in Elements(user_permissions)

\* the payloads callers hand to generate_jwt_token at time t
CallerPayloads(t) ==
    { [user_id |-> "test_user", role |-> "admin", exp |-> t - SecondsPerHour],
      [user_id |-> "test_user", permissions |-> <<"exec:command", "read:logs">>],
      [user_id |-> "test_user", api_key |-> "key-1", type |-> "session"] }

\* the clock moves on
tick(d) ==
    /\ ticks < MaxTicks
    /\ ticks' = ticks + 1
    /\ now' = now + d
    /\ check' = NoCall
    /\ UNCHANGED <<jwt_secret, jwt_expire_hours, token, gen, notJwt>>

\* generate_jwt_token(payload); the clock may move between its two readings
generate_jwt_token(payload, d) ==
    /\ d = 1 => ticks < MaxTicks
    /\ ticks' = ticks + d
    /\ now' = now + d
    /\ token' = jwt_encode(stamped(payload, now, now + d), jwt_secret)
    /\ gen' = [op |-> "generate_jwt_token", payload |-> payload, at |-> now,
               token |-> token']
    /\ check' = NoCall
    /\ UNCHANGED <<jwt_secret, jwt_expire_hours, notJwt>>

\* generate_api_key(user_id, permissions), os.urandom giving api_key
generate_api_key(user_id, permissions, api_key, d) ==
    /\ d = 1 => ticks < MaxTicks
    /\ ticks' = ticks + d
    /\ now' = now + d
    /\ token' = jwt_encode(stamped(api_key_payload(user_id, permissions, api_key),
                                   now, now + d), jwt_secret)
    /\ gen' = [op |-> "generate_api_key", user_id |-> user_id,
               permissions |-> permissions, at |-> now,
               api_key |-> api_key, token |-> token']
    /\ UNCHANGED <<jwt_secret, jwt_expire_hours, check, notJwt>>

\* someone without the signing secret signs a payload of their choice
forge_token(payload, secret) ==
    /\ secret # jwt_secret
    /\ token' = jwt_encode(payload, secret)
    /\ check' = NoCall
    /\ UNCHANGED <<jwt_secret, jwt_expire_hours, now, ticks, gen, notJwt>>

\* the body of an issued token is rewritten, the signature kept
tamper_payload(k, v) ==
    /\ token # NoToken /\ token = gen.token
    /\ token' = <<token[1], json_dumps(Put(json_loads(token[2]), k, v)), token[3]>>
    /\ token' # token
    /\ check' = NoCall
    /\ UNCHANGED <<jwt_secret, jwt_expire_hours, now, ticks, gen, notJwt>>

\* a segment of the token is lost
corrupt_structure ==
    /\ token # NoToken /\ token = gen.token
    /\ token' = SubSeq(token, 1, 2)
    /\ check' = NoCall
    /\ UNCHANGED <<jwt_secret, jwt_expire_hours, now, ticks, gen, notJwt>>

\* (each of these leaves the caller with no verification result in hand)

\* the caller goes back to the token the last issuing call returned
use_issued_token ==
    /\ gen # NoCall
    /\ token # gen.token
    /\ token' = gen.token
    /\ check' = NoCall
    /\ UNCHANGED <<jwt_secret, jwt_expire_hours, now, ticks, gen, notJwt>>

call_verify_jwt_token ==
    /\ token # NoToken
    /\ check' = [op |-> "verify_jwt_token", token |-> token, at |-> now,
                 out |-> verify_jwt_token(token, now)]
    /\ UNCHANGED <<jwt_secret, jwt_expire_hours, now, ticks, token, gen, notJwt>>

call_verify_api_key(api_key) ==
    /\ token # NoToken
    /\ check' = [op |-> "verify_api_key", token |-> token, at |-> now,
                 api_key |-> api_key, out |-> verify_api_key(api_key, token, now)]
    /\ UNCHANGED <<jwt_secret, jwt_expire_hours, now, ticks, token, gen, notJwt>>

call_validate_token_permissions(required) ==
    /\ token # NoToken
    /\ check' = [op |-> "validate_token_permissions", token |-> token, at |-> now,
                 required |-> required,
                 out |-> validate_token_permissions(token, required, now)]
    /\ UNCHANGED <<jwt_secret, jwt_expire_hours, now, ticks, token, gen, notJwt>>

----------------------------------------------------------------------------
(* SecurityManager: encryption *)

(* A string is a sequence of code points, bytes are a sequence of 0..255.  *)
(* A Fernet token is the record of its fields before base64: version, time *)
(* stamp, IV, ciphertext bytes and HMAC.  The block cipher is a toy stream  *)
(* cipher keyed by the encryption half of the key; the HMAC is ideal.       *)
\* "a", "é" and a lone surrogate, which str.encode() refuses
CodePoints == {97, 233, 56448}
IVs == {0, 1}

RECURSIVE SeqsUpTo(_, _)
SeqsUpTo(S, n) ==
    IF n = 0 THEN {<<>>}
    ELSE LET shorter == SeqsUpTo(S, n - 1)
         IN  shorter \cup {Append(q, x) : q \in shorter, x \in S}

Strings == SeqsUpTo(CodePoints, MaxPlainLen)

RECURSIVE SumBytes(_)
SumBytes(bytes) ==
    IF bytes = <<>> THEN 0 ELSE bytes[1] + SumBytes(Tail(bytes))

\* the configured aes_key values: one of exactly 32 bytes, one shorter
AesKeys == { [i \in 1..32 |-> 65], <<116, 101, 115, 116>>, <<107, 101, 121>> }

\* whether str.encode() accepts the string: no surrogate code points
encodable(str) == \A i \in 1..Len(str) : str[i] < 55296 \/ str[i] > 57343

\* str.encode(): UTF-8, of a string it accepts
RECURSIVE utf8_encode(_)
utf8_encode(str) ==
    IF str = <<>> THEN <<>>
    ELSE (IF str[1] < 128 THEN <<str[1]>>
          ELSE <<192 + (str[1] \div 64), 128 + (str[1] % 64)>>)
         \o utf8_encode(Tail(str))

\* whether bytes.decode() accepts the bytes as UTF-8
RECURSIVE utf8_valid(_)
utf8_valid(bytes) ==
    IF bytes = <<>> THEN TRUE
    ELSE IF bytes[1] < 128 THEN utf8_valid(Tail(bytes))
    ELSE IF bytes[1] >= 194 /\ bytes[1] < 224 /\ Len(bytes) >= 2
            /\ bytes[2] >= 128 /\ bytes[2] < 192
    THEN utf8_valid(Tail(Tail(bytes)))
    ELSE FALSE

\* bytes.decode(): UTF-8, of bytes it accepts
RECURSIVE utf8_decode(_)
utf8_decode(bytes) ==
    IF bytes = <<>> THEN <<>>
    ELSE IF bytes[1] < 128 THEN <<bytes[1]>> \o utf8_decode(Tail(bytes))
    ELSE <<(bytes[1] - 192) * 64 + (bytes[2] - 128)>>
         \o utf8_decode(Tail(Tail(bytes)))

\* _init_fernet: the 32 key bytes, taken as they are or derived with PBKDF2
init_fernet(key) ==
    IF Len(key) # 32
    THEN [kdf |-> "PBKDF2-HMAC-SHA256", salt |-> "aiops_salt",
          iterations |-> 100000, material |-> key]
    ELSE [kdf |-> "none", salt |-> "", iterations |-> 0, material |-> key]

\* Fernet: the signing half and the encryption half of the key
signing_key(fernet) == <<"bytes 0..15", fernet>>
encryption_key(fernet) ==
    (SumBytes(fernet.material) * 31 + fernet.iterations) % 256

\* PKCS7 padding to the 16-byte block
RECURSIVE Repeat(_, _)
Repeat(b, n) == IF n = 0 THEN <<>> ELSE <<b>> \o Repeat(b, n - 1)
pad(bytes) == bytes \o Repeat(16 - (Len(bytes) % 16), 16 - (Len(bytes) % 16))
padding_ok(bytes) ==
    /\ Len(bytes) > 0
    /\ Len(bytes) % 16 = 0
    /\ LET n == bytes[Len(bytes)]
       IN  /\ n >= 1
           /\ n <= 16
           /\ \A i \in (Len(bytes) - n + 1)..Len(bytes) : bytes[i] = n
unpad(bytes) == SubSeq(bytes, 1, Len(bytes) - bytes[Len(bytes)])

cipher_encrypt(k, iv, bytes) ==
    [i \in 1..Len(bytes) |-> (bytes[i] + k + iv + i) % 256]
cipher_decrypt(k, iv, bytes) ==
    [i \in 1..Len(bytes) |-> (bytes[i] + 1024 - k - iv - i) % 256]

fernet_hmac(fernet, version, ts, iv, ct) ==
    <<"HMAC-SHA256", signing_key(fernet), version, ts, iv, ct>>

\* Fernet.encrypt at time ts with the random IV iv
fernet_encrypt(fernet, bytes, ts, iv) ==
    LET ct == cipher_encrypt(encryption_key(fernet), iv, pad(bytes))
    IN  [base64 |-> TRUE, version |-> 128, ts |-> ts, iv |-> iv, ct |-> ct,
         hmac |-> fernet_hmac(fernet, 128, ts, iv, ct)]

\* (mutant) decryption that does not authenticate the token first
fernet_decrypt_unauthenticated(fernet, tok) ==
    IF ~tok.base64 THEN [raised |-> TRUE, exc |-> "InvalidToken", data |-> <<>>]
    ELSE IF tok.version # 128 THEN [raised |-> TRUE, exc |-> "InvalidToken", data |-> <<>>]
    ELSE LET padded == cipher_decrypt(encryption_key(fernet), tok.iv, tok.ct)
         IN  IF ~padding_ok(padded)
             THEN [raised |-> TRUE, exc |-> "InvalidToken", data |-> <<>>]
             ELSE [raised |-> FALSE, exc |-> "", data |-> unpad(padded)]

\* Fernet.decrypt, without ttl: base64, version, HMAC, cipher, padding
fernet_decrypt(fernet, tok) ==
    IF ~tok.base64 THEN [raised |-> TRUE, exc |-> "InvalidToken", data |-> <<>>]
    ELSE IF tok.version # 128 THEN [raised |-> TRUE, exc |-> "InvalidToken", data |-> <<>>]
    ELSE IF tok.hmac # fernet_hmac(fernet, tok.version, tok.ts, tok.iv, tok.ct)
    THEN [raised |-> TRUE, exc |-> "InvalidToken", data |-> <<>>]
    ELSE LET padded == cipher_decrypt(encryption_key(fernet), tok.iv, tok.ct)
         IN  IF ~padding_ok(padded)
             THEN [raised |-> TRUE, exc |-> "InvalidToken", data |-> <<>>]
             ELSE [raised |-> FALSE, exc |-> "", data |-> unpad(padded)]

\* encrypt_data's return value under the key `key`
encrypt_data_value(key, data, ts, iv) ==
    fernet_encrypt(init_fernet(key), utf8_encode(data), ts, iv)

\* decrypt_data's outcome: the string, or the exception it logs and re-raises
decrypt_data_value(key, encrypted_data) ==
    LET r == fernet_decrypt(init_fernet(key), encrypted_data)
    IN  IF r.raised THEN r
        ELSE IF ~utf8_valid(r.data)
        THEN [raised |-> TRUE, exc |-> "UnicodeDecodeError", data |-> <<>>]
        ELSE [raised |-> FALSE, exc |-> "", data |-> utf8_decode(r.data)]

NoCipher == [base64 |-> FALSE, version |-> 0, ts |-> 0, iv |-> 0, ct |-> <<>>,
             hmac |-> <<>>]
NotDecrypted == [op |-> "none"]

\* encrypt_data(data): the encrypted string, or the exception of data.encode()
\* logged and re-raised
encrypt_data(data, iv) ==
    /\ ciphertext' = IF encodable(data)
                     THEN encrypt_data_value(aes_key, data, now, iv)
                     ELSE NoCipher
    /\ plaintext' = data
    /\ origin' = IF encodable(data) THEN "fresh" ELSE "raised"
    /\ decrypted' = NotDecrypted
    /\ UNCHANGED <<aes_key, notCrypto>>

\* a SecurityManager configured with another aes_key encrypts
encrypt_under_other_key(key, data, iv) ==
    /\ key # aes_key
    /\ encodable(data)
    /\ ciphertext' = encrypt_data_value(key, data, now, iv)
    /\ plaintext' = data
    /\ origin' = "other_key"
    /\ decrypted' = NotDecrypted
    /\ UNCHANGED <<aes_key, notCrypto>>

\* the encrypted string is damaged on its way back: one field of it changes
corrupt_ciphertext(field) ==
    /\ origin = "fresh"
    /\ ciphertext' =
          IF field = "base64" THEN [ciphertext EXCEPT !.base64 = FALSE]
          ELSE IF field = "version" THEN [ciphertext EXCEPT !.version = 129]
          ELSE IF field = "ts" THEN [ciphertext EXCEPT !.ts = @ + 1]
          ELSE IF field = "iv" THEN [ciphertext EXCEPT !.iv = 1 - @]
          ELSE IF field = "ct" THEN [ciphertext EXCEPT !.ct[1] = (@ + 1) % 256]
          ELSE IF field = "last ct" THEN [ciphertext EXCEPT !.ct[16] = (@ + 1) % 256]
          ELSE [ciphertext EXCEPT !.hmac[5] = 1 - @]
    /\ origin' = "corrupted"
    /\ decrypted' = NotDecrypted
    /\ UNCHANGED <<aes_key, plaintext, notCrypto>>

\* decrypt_data(encrypted_data)
decrypt_data ==
    /\ origin \in {"fresh", "corrupted", "other_key"}
    /\ decrypted' = [op |-> "decrypt_data",
                     out |-> decrypt_data_value(aes_key, ciphertext)]
    /\ UNCHANGED <<aes_key, ciphertext, plaintext, origin, notCrypto>>

----------------------------------------------------------------------------
(* CommandExecutor.validate_command *)

(* A command text is a sequence of pieces, like a line of a script. *)
Whitespace == {" ", "\t", "\n"}
CommandTexts ==
    { <<>>, <<" ">>, <<" ", "\t", "\n">>, <<"ls">>, <<" ", "ls", " ">>,
      <<"rm", " ", "-rf", " ", "/">>,
      <<"sudo", " ", "RM", " ", "-RF", " ", "/">>,
      <<"mkfs", ".ext4">>,
      <<"dd", " ", "if=/dev/zero">> }

\* validate_command: dangerous_patterns
dangerous_patterns ==
    << <<"rm", " ", "-rf", " ", "/">>, <<"mkfs">>, <<"dd", " ", "if=/dev/zero">> >>

\* str.lower()
lower(text) ==
    [i \in 1..Len(text) |->
        IF text[i] = "RM" THEN "rm" ELSE IF text[i] = "-RF" THEN "-rf" ELSE text[i]]

\* str.strip()
RECURSIVE lstrip(_)
lstrip(text) ==
    IF text # <<>> /\ text[1] \in Whitespace THEN lstrip(Tail(text)) ELSE text
RECURSIVE rstrip(_)
rstrip(text) ==
    IF text # <<>> /\ text[Len(text)] \in Whitespace
    THEN rstrip(SubSeq(text, 1, Len(text) - 1))
    ELSE text
strip(text) == rstrip(lstrip(text))

\* (mutant) a command that matches a dangerous pattern is refused
validate_command_blocking(command) ==
    IF command = <<>> \/ strip(command) = <<>> THEN FALSE
    ELSE \A i \in 1..Len(dangerous_patterns) :
            ~Has(lower(command), dangerous_patterns[i])

\* validate_command's return value
validate_command(command) ==
    IF command = <<>> \/ strip(command) = <<>> THEN FALSE
    ELSE TRUE

\* validate_command's log: one warning for each dangerous pattern found
RECURSIVE pattern_warnings(_, _)
pattern_warnings(command, i) ==
    IF i > Len(dangerous_patterns) THEN <<>>
    ELSE (IF Has(lower(command), dangerous_patterns[i])
          THEN << <<"dangerous command pattern: ", dangerous_patterns[i]>> >>
          ELSE <<>>)
         \o pattern_warnings(command, i + 1)
validate_command_warnings(command) ==
    IF command = <<>> \/ strip(command) = <<>> THEN <<>>
    ELSE pattern_warnings(command, 1)

NotValidated == [command |-> <<>>, called |-> FALSE, out |-> FALSE, log |-> <<>>]

----------------------------------------------------------------------------
(* AgentServer *)

Routes == {"/exec/command", "/exec/script/content", "/exec/script/file",
           "/exec/script/dynamic", "/users"}
\* the Authorization a request carries: none, one that does not verify, a good one
Credentials == {"absent", "invalid", "valid"}
RequestUsers == {None, "alice"}
UploadedFiles == {"<no file part>", "", "run.sh"}

NoRequest == [route |-> "none", authorization |-> "absent", data |-> <<>>]
NoResponse == [status |-> 0]

\* a caller asks validate_command about a text
call_validate_command(command) ==
    /\ validated' = [command |-> command, called |-> TRUE,
                     out |-> validate_command(command),
                     log |-> validate_command_warnings(command)]
    /\ request' = NoRequest
    /\ response' = NoResponse
    /\ invoked' = <<>>
    /\ warnings' = <<>>
    /\ UNCHANGED notServer

\* before_request: the hook that runs ahead of every handler; it lets every
\* request through
before_request(authorization) == TRUE

\* _handle_command_execution: the status, the body, the calls and the log
handle_command_execution(json, command, user, res) ==
    IF ~json \/ command = <<>>
    THEN [status |-> 400, body |-> [error |-> "bad request"],
          invoked |-> <<>>, log |-> <<>>]
    ELSE IF ~validate_command(command)
    THEN [status |-> 400, body |-> [error |-> "command failed the safety check"],
          invoked |-> <<>>, log |-> validate_command_warnings(command)]
    ELSE [status |-> 200, body |-> res,
          invoked |-> << [call |-> "executor.execute", arg |-> command,
                          user |-> user] >>,
          log |-> validate_command_warnings(command)]

\* _handle_script_content_execution / _handle_dynamic_script_execution
handle_script_execution(call, json, script, user, res) ==
    IF ~json \/ script = <<>>
    THEN [status |-> 400, body |-> [error |-> "bad request"],
          invoked |-> <<>>, log |-> <<>>]
    ELSE [status |-> 200, body |-> res,
          invoked |-> << [call |-> call, arg |-> script, user |-> user] >>,
          log |-> <<>>]

\* _handle_script_file_execution
handle_script_file_execution(file, user, res) ==
    IF file \in {"<no file part>", ""}
    THEN [status |-> 400, body |-> [error |-> "bad request"],
          invoked |-> <<>>, log |-> <<>>]
    ELSE [status |-> 200, body |-> res,
          invoked |-> << [call |-> "script_executor.execute_script_file",
                          arg |-> file, user |-> user] >>,
          log |-> <<>>]

\* UserSwitch.get_available_users
get_available_users ==
    IF platform = "linux" THEN <<"root", "alice">>
    ELSE IF platform = "windows" THEN <<"Administrator">>
    ELSE <<>>

\* _handle_get_users
handle_get_users ==
    [status |-> 200, body |-> [users |-> get_available_users],
     invoked |-> << [call |-> "user_switch.get_available_users", arg |-> <<>>,
                     user |-> None] >>,
     log |-> <<>>]

\* the hook's refusal, if it had one: the handler never runs
refused ==
    [status |-> 401, body |-> [error |-> "unauthorized"], invoked |-> <<>>,
     log |-> <<>>]

\* Flask serves one request: before_request, then the route's handler
serve(req_, handled) ==
    LET done == IF before_request(req_.authorization) THEN handled ELSE refused
    IN  /\ request' = req_
        /\ response' = [status |-> done.status, body |-> done.body]
        /\ invoked' = done.invoked
        /\ warnings' = done.log

\* the JSON bodies of the /exec routes: none, or an object with its fields
NoJson == [json |-> FALSE, text |-> <<>>, user |-> None]
CommandBodies ==
    {NoJson} \cup {[json |-> TRUE, text |-> c, user |-> u] :
                      c \in CommandTexts, u \in RequestUsers}
PostedScripts ==
    { <<>>, << <<"echo", " hi">> >>,
      << <<"#!/", "usr/bin/env ", "python">>, <<"print(", "1", ")">> >> }
ScriptBodies ==
    {NoJson} \cup {[json |-> TRUE, text |-> sc, user |-> u] :
                      sc \in PostedScripts, u \in RequestUsers}

\* what the component called by the handler returned, where it was called
Outcomes(handled) ==
    IF handled.invoked = <<>> THEN {NoResult} ELSE ScriptOutcomes

post_exec_command(authorization, data, res) ==
    /\ res \in Outcomes(handle_command_execution(data.json, data.text, data.user, res))
    /\ serve([route |-> "/exec/command", authorization |-> authorization,
              data |-> data],
             handle_command_execution(data.json, data.text, data.user, res))
    /\ validated' = NotValidated
    /\ UNCHANGED notServer

post_exec_script_content(authorization, data, res) ==
    /\ res \in Outcomes(handle_script_execution(
                  "script_executor.execute_script_content",
                  data.json, data.text, data.user, res))
    /\ serve([route |-> "/exec/script/content", authorization |-> authorization,
              data |-> data],
             handle_script_execution("script_executor.execute_script_content",
                                     data.json, data.text, data.user, res))
    /\ validated' = NotValidated
    /\ UNCHANGED notServer

post_exec_script_dynamic(authorization, data, res) ==
    /\ res \in Outcomes(handle_script_execution(
                  "script_executor.execute_dynamic_wrapper",
                  data.json, data.text, data.user, res))
    /\ serve([route |-> "/exec/script/dynamic", authorization |-> authorization,
              data |-> data],
             handle_script_execution("script_executor.execute_dynamic_wrapper",
                                     data.json, data.text, data.user, res))
    /\ validated' = NotValidated
    /\ UNCHANGED notServer

post_exec_script_file(authorization, file, user, res) ==
    /\ res \in Outcomes(handle_script_file_execution(file, user, res))
    /\ serve([route |-> "/exec/script/file", authorization |-> authorization,
              data |-> [file |-> file, user |-> user]],
             handle_script_file_execution(file, user, res))
    /\ validated' = NotValidated
    /\ UNCHANGED notServer

get_users(authorization) ==
    /\ serve([route |-> "/users", authorization |-> authorization,
              data |-> NoJson],
             handle_get_users)
    /\ validated' = NotValidated
    /\ UNCHANGED notServer

----------------------------------------------------------------------------
(* CommandExecutor._run_command: the environment of the child *)

\* an environment is a dict: a function from the names it holds to their values
EnvKeys == {"PATH", "LANG", "HOME"}
EnvValues == {"a", "b"}
EmptyEnv == [k \in {} |-> "a"]
Environments == UNION {[S -> EnvValues] : S \in SUBSET EnvKeys}

\* the env argument: None, or a dict, possibly empty
NoOverlay == [given |-> FALSE, vars |-> EmptyEnv]
Overlays == {NoOverlay} \cup {[given |-> TRUE, vars |-> e] : e \in Environments}

\* dict.update
dict_update(d, other) ==
    [k \in (DOMAIN d) \cup (DOMAIN other) |->
        IF k \in DOMAIN other THEN other[k] ELSE d[k]]

\* (mutant) the overlay is applied to os.environ itself, not to a copy
cmd_env_in_place(process_env, env) ==
    LET updated == dict_update(process_env, env.vars)
    IN  [environ |-> updated, cmd_env |-> updated]

\* cmd_env = os.environ.copy(); if env: cmd_env.update(env): the environment
\* handed to Popen, and os.environ after it
cmd_env(process_env, env) ==
    LET copy == process_env
    IN  [environ |-> process_env,
         cmd_env |-> IF env.given /\ DOMAIN env.vars # {}
                     THEN dict_update(copy, env.vars) ELSE copy]

NoEnvCall == [made |-> FALSE, env |-> NoOverlay, before |-> EmptyEnv,
              child |-> EmptyEnv]

\* _run_command(command, working_dir, env), up to its Popen
run_command_env(env) ==
    LET prepared == cmd_env(environ, env)
    IN  /\ environ' = prepared.environ
        /\ env_call' = [made |-> TRUE, env |-> env, before |-> environ,
                        child |-> prepared.cmd_env]
        /\ UNCHANGED notEnv

----------------------------------------------------------------------------
(* Config: the process-wide configuration and the threads that use it *)

\* the reloading thread and a reading thread (requests are served by threads)
Reloader == "reloader"
Reader == "reader"
Threads == {Reloader, Reader}
DefaultPath == "config/default.yaml"
ReloadPaths == {"other.yaml"}

\* the configuration: where it was loaded from, and the two secrets, each as
\* the file has it or as AIOPS_JWT_SECRET / AIOPS_AES_KEY override it
NoConfig == [source |-> None, jwt_secret |-> None, aes_key |-> None]
TypeError == [source |-> "TypeError", jwt_secret |-> None, aes_key |-> None]
safe_load(path) == [source |-> path, jwt_secret |-> "file", aes_key |-> "file"]
complete(path) == [source |-> path, jwt_secret |-> "env", aes_key |-> "env"]

IdleThread == [pc |-> "idle", op |-> "none", path |-> None, ret |-> NoConfig]

\* Config.reload(config_path): cls._config = None, then load(config_path)
reload_call(t, path) ==
    /\ t = Reloader
    /\ threads[t].pc = "idle"
    /\ config' = NoConfig
    /\ threads' = [threads EXCEPT ![t] =
                      [IdleThread EXCEPT !.pc = "load_check", !.op = "reload",
                                         !.path = path]]
    /\ UNCHANGED notConfig

\* Config.load() by a reader, with the default path
load_call(t) ==
    /\ t = Reader
    /\ threads[t].pc = "idle"
    /\ threads' = [threads EXCEPT ![t] =
                      [IdleThread EXCEPT !.pc = "load_check", !.op = "load",
                                         !.path = DefaultPath]]
    /\ UNCHANGED <<config, notConfig>>

\* Config.get(key): if cls._config is None: cls.load()
get_call(t) ==
    /\ t = Reader
    /\ threads[t].pc = "idle"
    /\ threads' = [threads EXCEPT ![t] =
                      [IdleThread EXCEPT
                          !.pc = IF config = NoConfig THEN "load_check" ELSE "get_read",
                          !.op = "get", !.path = DefaultPath]]
    /\ UNCHANGED <<config, notConfig>>

\* what a thread does when its load() returns: get goes on to read
after_load(t) == IF threads[t].op = "get" THEN "get_read" ELSE "returned"

\* Config.load: if cls._config is not None: return cls._config
load_check(t) ==
    /\ threads[t].pc = "load_check"
    /\ threads' = [threads EXCEPT
                      ![t].pc = IF config # NoConfig THEN after_load(t) ELSE "load_read",
                      ![t].ret = IF config # NoConfig THEN config ELSE NoConfig]
    /\ UNCHANGED <<config, notConfig>>

\* Config.load: cls._config = yaml.safe_load(f)
load_read(t) ==
    /\ threads[t].pc = "load_read"
    /\ config' = safe_load(threads[t].path)
    /\ threads' = [threads EXCEPT ![t].pc = "override_check"]
    /\ UNCHANGED notConfig

\* Config._override_with_env: if not cls._config: return
override_check(t) ==
    /\ threads[t].pc = "override_check"
    /\ threads' = [threads EXCEPT
                      ![t].pc = IF config = NoConfig THEN "load_return"
                                ELSE "override_jwt_secret"]
    /\ UNCHANGED <<config, notConfig>>

\* Config._override_with_env: cls._config['security'][field] = os.getenv(...),
\* on whatever cls._config is by now; subscripting None raises TypeError
override(t, field, next_pc) ==
    /\ threads[t].pc = "override_" \o field
    /\ IF config = NoConfig
       THEN /\ threads' = [threads EXCEPT ![t].pc = "returned", ![t].ret = TypeError]
            /\ UNCHANGED config
       ELSE /\ config' = [config EXCEPT ![field] = "env"]
            /\ threads' = [threads EXCEPT ![t].pc = next_pc]
    /\ UNCHANGED notConfig

\* Config.load: return cls._config
load_return(t) ==
    /\ threads[t].pc = "load_return"
    /\ threads' = [threads EXCEPT ![t].pc = after_load(t), ![t].ret = config]
    /\ UNCHANGED <<config, notConfig>>

\* Config.get: value = cls._config, then the walk down the keys of 'security';
\* on None the walk gives the default
get_read(t) ==
    /\ threads[t].pc = "get_read"
    /\ threads' = [threads EXCEPT ![t].pc = "returned", ![t].ret = config]
    /\ UNCHANGED <<config, notConfig>>

\* the caller takes the value; the thread is free for its next call
config_next_call(t) ==
    /\ threads[t].pc = "returned"
    /\ threads' = [threads EXCEPT ![t].pc = "idle"]
    /\ UNCHANGED <<config, notConfig>>

----------------------------------------------------------------------------
(* ScriptExecutor: classification of files and of inline text *)

\* first lines with and without a directive, second lines, file suffixes
FirstLines ==
    { <<"#!/", "bin/", "ba", "sh">>, <<"#!/", "usr/bin/", "python">>,
      <<"#!/", "usr/bin/env ", "pw", "sh">>, <<"#!/", "usr/bin/", "perl">>,
      <<"import ", "os">>, <<"echo", " hi">>, <<"Get-", "Date">>, <<"ls">> }
BodyLines ==
    { <<"def ", "f():">>, <<"echo", " x">>, <<"Write-Host", " x">>, <<"true">> }
Suffixes == {".py", ".sh", ".bash", ".ps1", ""}

NotClassified == [mode |-> "none", script |-> <<>>, ext |-> "", kind |-> "none"]

\* _detect_script_type on a file with this text and this suffix
classify_file(first_line, body, ext) ==
    /\ classified' = [mode |-> "file", script |-> <<first_line, body>>, ext |-> ext,
                      kind |-> detect_by_path(first_line, ext)]
    /\ UNCHANGED notClassify

\* _detect_script_type_from_content on this text
classify_content(first_line, body) ==
    /\ classified' = [mode |-> "content", script |-> <<first_line, body>>, ext |-> "",
                      kind |-> detect_script_type_from_content(<<first_line, body>>)]
    /\ UNCHANGED notClassify

----------------------------------------------------------------------------
(* AgentServer._handle_script_file_execution, one request per thread *)

\* the sanitised names and the texts of the uploaded files
Filenames == {"run.sh", "job.sh"}
UploadedTexts == { << <<"echo", " a">> >>, << <<"echo", " b">> >> }

IdleHandler == [pc |-> "idle", filename |-> None, content |-> <<>>,
                ran |-> NotRun, removed |-> 0]

\* filename = secure_filename(file.filename); file.save(file_path)
file_save(h, filename, content) ==
    /\ handlers[h].pc = "idle"
    /\ uploads' = Written(uploads, filename, h, content)
    /\ handlers' = [handlers EXCEPT ![h] =
                      [IdleHandler EXCEPT !.pc = "execute", !.filename = filename,
                                          !.content = content]]
    /\ UNCHANGED notUpload

\* execute_script_file(file_path): not found, or the interpreter runs what the
\* file holds now
file_execute(h) ==
    LET file_path == handlers[h].filename
    IN  /\ handlers[h].pc = "execute"
        /\ handlers' = [handlers EXCEPT
                          ![h].pc = "remove",
                          ![h].ran = IF file_path \in DOMAIN uploads
                                     THEN uploads[file_path].content ELSE NoSuchFile]
        /\ UNCHANGED <<uploads, notUpload>>

\* os.remove(file_path), a failure logged; then the response
file_remove(h) ==
    LET file_path == handlers[h].filename
    IN  /\ handlers[h].pc = "remove"
        /\ uploads' = cleanup_temp_file(uploads, file_path)
        /\ handlers' = [handlers EXCEPT
                          ![h].pc = "responded",
                          ![h].removed = IF file_path \in DOMAIN uploads
                                         THEN uploads[file_path].owner ELSE 0]
        /\ UNCHANGED notUpload

\* the thread takes the next request
file_next_request(h) ==
    /\ handlers[h].pc = "responded"
    /\ handlers' = [handlers EXCEPT ![h] = IdleHandler]
    /\ UNCHANGED <<uploads, notUpload>>

----------------------------------------------------------------------------
ExecIdle ==
    /\ entry = "none"
    /\ pc = "idle"
    /\ req = NoReq
    /\ popen = <<>>
    /\ idchecks = {}
    /\ child = NoChild
    /\ steps = <<>>
    /\ result = NoResult
    /\ calls = 0

ScriptIdle ==
    /\ temp_files = <<>>
    /\ sx = [w \in Workers |-> IdleExecution]
    /\ scalls = 0

JwtIdle ==
    /\ jwt_secret = "test-jwt-secret"
    /\ jwt_expire_hours = DefaultExpireHours
    /\ now = SecondsPerHour
    /\ ticks = 0
    /\ token = NoToken
    /\ gen = NoCall
    /\ check = NoCall

CryptoIdle ==
    /\ aes_key = [i \in 1..32 |-> 65]
    /\ ciphertext = NoCipher
    /\ plaintext = <<>>
    /\ origin = "none"
    /\ decrypted = NotDecrypted

ServerIdle ==
    /\ request = NoRequest
    /\ response = NoResponse
    /\ invoked = <<>>
    /\ warnings = <<>>
    /\ validated = NotValidated

EnvIdle ==
    /\ environ = EmptyEnv
    /\ env_call = NoEnvCall

ConfigIdle ==
    /\ config = NoConfig
    /\ threads = [t \in Threads |-> IdleThread]

ClassifyIdle == classified = NotClassified

UploadIdle ==
    /\ uploads = <<>>
    /\ handlers = [h \in Workers |-> IdleHandler]

InitExec ==
    /\ platform \in Platforms
    /\ timeout \in Timeouts
    /\ max_output_size \in OutputSizes
    /\ ExecIdle
    /\ ScriptIdle
    /\ JwtIdle
    /\ CryptoIdle
    /\ ServerIdle
    /\ EnvIdle
    /\ ConfigIdle
    /\ ClassifyIdle
    /\ UploadIdle

NextExec ==
    \/ \E c \in Commands, u \in Users \cup {None}, d \in WorkingDirs :
          execute_call(c, u, d)
    \/ \E rc \in ReturnCodes, out \in Texts, err \in Texts :
          child_exit(rc, out, err)
    \/ communicate_return
    \/ communicate_timeout
    \/ \E c \in Commands, u \in Users, d \in WorkingDirs :
          execute_as_user_call(c, u, d)
    \/ communicate_return_as_user
    \/ next_call

SpecExec == InitExec /\ [][NextExec]_vars
\* the scheduling of the calling thread: a communicate() that can return does,
\* and a deadline that can pass does; nothing makes a child terminate
SpecExecFair ==
    /\ SpecExec
    /\ WF_vars(communicate_return)
    /\ WF_vars(communicate_timeout)
    /\ WF_vars(communicate_return_as_user)


InitScript ==
    /\ platform = "linux"
    /\ timeout = DefaultTimeout
    /\ max_output_size = 2
    /\ ExecIdle
    /\ ScriptIdle
    /\ JwtIdle
    /\ CryptoIdle
    /\ ServerIdle
    /\ EnvIdle
    /\ ConfigIdle
    /\ ClassifyIdle
    /\ UploadIdle

NextScript ==
    \/ \E w \in Workers, s \in Scripts, n \in Names : script_content_create(w, s, n)
    \/ \E w \in Workers, r \in ScriptOutcomes \cup NotFoundOutcomes :
          script_content_dispatch(w, r)
    \/ \E w \in Workers : script_content_cleanup(w)
    \/ \E w \in Workers, s \in Scripts, n \in Names, m \in Names :
          wrapper_create(w, s, n, m)
    \/ \E w \in Workers, r \in ChildRuns : wrapper_dispatch(w, r)
    \/ \E w \in Workers : wrapper_cleanup(w)
    \/ \E w \in Workers, q \in FilePaths : script_file_call(w, q)
    \/ \E w \in Workers, r \in ScriptOutcomes \cup NotFoundOutcomes :
          script_file_dispatch(w, r)
    \/ \E w \in Workers : script_next_call(w)

SpecScript == InitScript /\ [][NextScript]_vars

InitJwt ==
    /\ platform = "linux"
    /\ timeout = DefaultTimeout
    /\ max_output_size = 2
    /\ ExecIdle
    /\ ScriptIdle
    /\ jwt_secret = "test-jwt-secret"
    /\ jwt_expire_hours \in ExpireHours
    /\ now = SecondsPerHour
    /\ ticks = 0
    /\ token = NoToken
    /\ gen = NoCall
    /\ check = NoCall
    /\ CryptoIdle
    /\ ServerIdle
    /\ EnvIdle
    /\ ConfigIdle
    /\ ClassifyIdle
    /\ UploadIdle

Lifetime == jwt_expire_hours * SecondsPerHour
FarFuture == SecondsPerHour * SecondsPerHour

NextJwt ==
    \/ \E d \in {1, Lifetime - 1} : tick(d)
    \/ \E p \in CallerPayloads(now), d \in {0, 1} : generate_jwt_token(p, d)
    \/ \E u \in Subjects, ps \in PermissionLists, k \in ApiKeys, d \in {0, 1} :
          generate_api_key(u, ps, k, d)
    \/ \E p \in {api_key_payload("test_user", <<"exec:command", "admin:all">>, "key-1")} :
          forge_token(Put(p, "exp", FarFuture), "attacker-secret")
    \/ tamper_payload("exp", FarFuture)
    \/ tamper_payload("permissions", <<"exec:command", "admin:all">>)
    \/ corrupt_structure
    \/ use_issued_token
    \/ call_verify_jwt_token
    \/ \E k \in PresentedKeys : call_verify_api_key(k)
    \/ \E r \in RequiredLists : call_validate_token_permissions(r)

SpecJwt == InitJwt /\ [][NextJwt]_vars

InitCrypto ==
    /\ platform = "linux"
    /\ timeout = DefaultTimeout
    /\ max_output_size = 2
    /\ ExecIdle
    /\ ScriptIdle
    /\ JwtIdle
    /\ aes_key \in AesKeys
    /\ ciphertext = NoCipher
    /\ plaintext = <<>>
    /\ origin = "none"
    /\ decrypted = NotDecrypted
    /\ ServerIdle
    /\ EnvIdle
    /\ ConfigIdle
    /\ ClassifyIdle
    /\ UploadIdle

NextCrypto ==
    \/ \E x \in Strings, iv \in IVs : encrypt_data(x, iv)
    \/ \E k \in AesKeys, x \in Strings, iv \in IVs : encrypt_under_other_key(k, x, iv)
    \/ \E f \in {"base64", "version", "ts", "iv", "ct", "last ct", "hmac"} :
          corrupt_ciphertext(f)
    \/ decrypt_data

SpecCrypto == InitCrypto /\ [][NextCrypto]_vars

InitServer ==
    /\ platform \in {"linux", "windows"}
    /\ timeout = DefaultTimeout
    /\ max_output_size = 2
    /\ ExecIdle
    /\ ScriptIdle
    /\ JwtIdle
    /\ CryptoIdle
    /\ ServerIdle
    /\ EnvIdle
    /\ ConfigIdle
    /\ ClassifyIdle
    /\ UploadIdle

ServerResults == ScriptOutcomes \cup {NoResult}

NextServer ==
    \/ \E c \in CommandTexts : call_validate_command(c)
    \/ \E a \in Credentials, d \in CommandBodies, res \in ServerResults :
          post_exec_command(a, d, res)
    \/ \E a \in Credentials, d \in ScriptBodies, res \in ServerResults :
          post_exec_script_content(a, d, res)
    \/ \E a \in Credentials, d \in ScriptBodies, res \in ServerResults :
          post_exec_script_dynamic(a, d, res)
    \/ \E a \in Credentials, f \in UploadedFiles, u \in RequestUsers,
          res \in ServerResults : post_exec_script_file(a, f, u, res)
    \/ \E a \in Credentials : get_users(a)

SpecServer == InitServer /\ [][NextServer]_vars
InitEnv ==
    /\ platform = "linux"
    /\ timeout = DefaultTimeout
    /\ max_output_size = 2
    /\ environ \in Environments
    /\ env_call = NoEnvCall
    /\ ExecIdle
    /\ ScriptIdle
    /\ JwtIdle
    /\ CryptoIdle
    /\ ServerIdle
    /\ ConfigIdle
    /\ ClassifyIdle
    /\ UploadIdle

NextEnv == \E env \in Overlays : run_command_env(env)

SpecEnv == InitEnv /\ [][NextEnv]_vars
\* after startup: main has loaded the default configuration
InitConfig ==
    /\ platform = "linux"
    /\ timeout = DefaultTimeout
    /\ max_output_size = 2
    /\ config = complete(DefaultPath)
    /\ threads = [t \in Threads |-> IdleThread]
    /\ ExecIdle
    /\ ScriptIdle
    /\ JwtIdle
    /\ CryptoIdle
    /\ ServerIdle
    /\ EnvIdle
    /\ ClassifyIdle
    /\ UploadIdle

NextConfig ==
    \E t \in Threads :
        \/ \E path \in ReloadPaths : reload_call(t, path)
        \/ load_call(t)
        \/ get_call(t)
        \/ load_check(t)
        \/ load_read(t)
        \/ override_check(t)
        \/ override(t, "jwt_secret", "override_aes_key")
        \/ override(t, "aes_key", "load_return")
        \/ load_return(t)
        \/ get_read(t)
        \/ config_next_call(t)

SpecConfig == InitConfig /\ [][NextConfig]_vars
InitClassify ==
    /\ platform = "linux"
    /\ timeout = DefaultTimeout
    /\ max_output_size = 2
    /\ ExecIdle
    /\ ScriptIdle
    /\ JwtIdle
    /\ CryptoIdle
    /\ ServerIdle
    /\ EnvIdle
    /\ ConfigIdle
    /\ ClassifyIdle
    /\ UploadIdle

NextClassify ==
    \/ \E first_line \in FirstLines, body \in BodyLines, ext \in Suffixes :
          classify_file(first_line, body, ext)
    \/ \E first_line \in FirstLines, body \in BodyLines :
          classify_content(first_line, body)

SpecClassify == InitClassify /\ [][NextClassify]_vars
InitUpload ==
    /\ platform = "linux"
    /\ timeout = DefaultTimeout
    /\ max_output_size = 2
    /\ ExecIdle
    /\ ScriptIdle
    /\ JwtIdle
    /\ CryptoIdle
    /\ ServerIdle
    /\ EnvIdle
    /\ ConfigIdle
    /\ ClassifyIdle
    /\ UploadIdle

NextUpload ==
    \E h \in Workers :
        \/ \E filename \in Filenames, content \in UploadedTexts :
              file_save(h, filename, content)
        \/ file_execute(h)
        \/ file_remove(h)
        \/ file_next_request(h)

SpecUpload == InitUpload /\ [][NextUpload]_vars






----------------------------------------------------------------------------
(* Claims about CommandExecutor and UserSwitch, checked under SpecExec *)

Returned(e) == pc = "returned" /\ entry = e
Did(step) == \E i \in 1..Len(steps) : steps[i] = step
InternalError == Did("timeout") \/ Did("spawn_failed")

\* C1 (as claimed): every result returned by CommandExecutor.execute has
\* success = (return_code = 0 and no internal error occurred); a child that
\* exits non-zero gives success = false with that return code.
C1_SuccessIffZeroExit ==
    Returned("execute") =>
        (result.success <=> (result.return_code = 0 /\ ~InternalError))

\* C2: when the deadline passes with the child still running, execute kills
\* the child and waits for it before it returns, and the result is
\* success = false, return_code = -1, empty output, and an error text that
\* carries the timeout wording and the configured duration.
C2_TimeoutKillsAndReports ==
    (Returned("execute") /\ Did("timeout")) =>
        /\ \E i \in 1..Len(steps) : steps[i] = "kill" /\ i < Len(steps)
                                    /\ steps[i + 1] = "wait"
        /\ child.state = "reaped"
        /\ result.success = FALSE
        /\ result.return_code = -1
        /\ result.output = <<>>
        /\ \E i \in 1..Len(result.error) : result.error[i] = ToString(timeout)
        /\ result.error[1] = "command timed out (over "

C2_Witness ==
    /\ Returned("execute")
    /\ Did("timeout")
    /\ timeout = 5
    /\ req.command = "sleep"

\* C3 (as claimed): on Linux a request naming an identity that does not exist
\* never spawns a child for the command and ends with return code -1 and the
\* identity-not-found error, at every entry point that takes an identity.
C3_UnknownUserNeverSpawns ==
    (platform = "linux" /\ entry # "none" /\ req.user # None
                        /\ req.user \notin ExistingUsers) =>
        /\ popen = <<>>
        /\ pc = "returned"
        /\ result.return_code = -1
        /\ result.error = <<"user does not exist: ", req.user>>

\* what a returned stream must be for the captured stream `captured`
Capped(returned, captured, marker) ==
    IF Len(captured) > max_output_size
    THEN /\ Len(returned) = max_output_size + 1
         /\ \A i \in 1..max_output_size : returned[i] = captured[i]
         /\ returned[max_output_size + 1] = marker
    ELSE returned = captured

\* C11: each of stdout and stderr, on its own, comes back as its first
\* max_output_size units followed by its truncation marker when it is larger
\* than max_output_size, and unchanged without a marker when it is not; cutting
\* one stream leaves the other as captured.
C11_StreamsCappedIndependently ==
    (Returned("execute") /\ Did("communicate")) =>
        /\ Capped(result.output, child.stdout, "[output truncated]")
        /\ Capped(result.error, child.stderr, "[error output truncated]")

\* stdout is over the cap, stderr is exactly at it
C11_Witness ==
    /\ Returned("execute")
    /\ Did("communicate")
    /\ Len(child.stdout) > max_output_size
    /\ Len(child.stderr) = max_output_size
    /\ result.error = child.stderr

\* C18 (as claimed): on Linux both rewriters produce a command line that
\* holds the login-session switch 'su -l U -c' and the original command, the
\* command prefixed with a change into the working directory when one was
\* requested.
C18_LinuxLoginSessionSwitch ==
    (platform = "linux" /\ entry \in {"execute", "execute_as_user"}
                        /\ req.user # None /\ popen # <<>>) =>
        /\ Has(popen[1], <<"su", "-l", req.user, "-c">>)
        /\ Has(popen[1], <<req.command>>)
        /\ req.working_dir # None =>
              Has(popen[1], <<"cd", req.working_dir, "&&", req.command>>)

\* C19 (as claimed): on Windows a request naming a target identity runs the
\* original command line unchanged under the current identity; no
\* identity-switch tool is put into the command that is run, by
\* CommandExecutor and by UserSwitch alike.
C19_WindowsIdentityIsAdvisory ==
    (platform = "windows" /\ entry \in {"execute", "execute_as_user"}
                          /\ req.user # None /\ popen # <<>>) =>
        popen[1] = <<req.command>>

\* C22: every call that has spawned a child eventually returns, also when the
\* child never terminates on its own
C22_SpawningCallReturns == (pc = "communicate") ~> (pc = "returned")

\* C23, the part about CommandExecutor.execute (checked under SpecExec): a call
\* spawns at most one child, also when it fails or times out
C23_ExecuteSpawnsAtMostOnce ==
    /\ Len(popen) <= 1
    /\ (entry = "execute" /\ pc = "returned" /\ Did("timeout")) => Len(popen) = 1

\* C27: -1 is reserved for the invoker's own failures: a result whose return
\* code is the one the child process reported never has return_code = -1
C27_MinusOneIsInternalOnly ==
    (pc = "returned" /\ Did("communicate")) => result.return_code # -1

----------------------------------------------------------------------------
(* Claims about ScriptExecutor, checked under SpecScript *)

\* C4 (as claimed): once execute_script_content or execute_dynamic_wrapper has
\* returned, whatever the outcome, no ephemeral file created for that
\* execution is left in the scratch directory.
C4_NoTempFileAfterReturn ==
    \A w \in Workers :
        sx[w].pc = "returned" =>
            \A q \in DOMAIN temp_files : temp_files[q].owner # w

\* the interpreter an interpreter directive names, longest name first
NamedKind(first_line) ==
    IF ~(Len(first_line) > 0 /\ first_line[1] = "#!/") THEN "none"
    ELSE IF Has(first_line, <<"python">>) THEN "python"
    ELSE IF Has(first_line, <<"power", "sh", "ell">>) \/ Has(first_line, <<"pw", "sh">>)
    THEN "powershell"
    ELSE IF Has(first_line, <<"ba", "sh">>) \/ Has(first_line, <<"sh">>) THEN "shell"
    ELSE "none"

\* C13 (as claimed): a script whose first line is an interpreter directive is
\* classified by the interpreter the directive names: python gives python,
\* bash or sh gives shell, powershell or pwsh gives powershell.
C13_DirectiveDecidesKind ==
    \A w \in Workers :
        (sx[w].pc # "idle" /\ NamedKind(sx[w].script[1]) # "none") =>
            detect_script_type_from_content(sx[w].script) = NamedKind(sx[w].script[1])

\* C14 (as claimed): the file handed to the interpreter holds the original
\* script text character for character, in execute_script_content and in
\* execute_dynamic_wrapper, whatever quotes or backslashes the text contains.
C14_InterpreterGetsOriginalText ==
    \A w \in Workers :
        /\ (sx[w].mode = "content" /\ sx[w].pc = "dispatch"
             /\ sx[w].path \in DOMAIN temp_files
             /\ temp_files[sx[w].path].owner = w) =>
               temp_files[sx[w].path].content = sx[w].script
        /\ (sx[w].mode = "wrapper" /\ sx[w].ran # NotRun) =>
               sx[w].ran = sx[w].script

\* C15 (as claimed): the wrapper program relays its child exactly: its stdout
\* is the child's stdout with nothing added or removed, the child's stderr
\* appears on its stderr only for a non-zero exit code, and it exits with the
\* child's exit code.
C15_WrapperRelaysChildExactly ==
    \A w \in Workers :
        (sx[w].mode = "wrapper" /\ sx[w].run.ran /\ ~sx[w].run.killed) =>
            /\ sx[w].result.output = sx[w].run.stdout
            /\ sx[w].run.rc = 0 => sx[w].result.error = <<>>
            /\ sx[w].result.return_code = sx[w].run.rc

\* the execution ended without the script's interpreter having started
InterpreterNotStarted(w) ==
    \/ sx[w].spawned = <<>>
    \/ sx[w].mode \in {"content", "file"} /\ sx[w].spawned[1][1] \notin Installed

\* C16 (as claimed): no failure escapes an entry point as an exception; every
\* failure, a failure to start the child included, comes back as a result
\* with success = false, return_code = -1 and the failure's message as error.
C16_FailuresComeBackAsResults ==
    \A w \in Workers :
        (sx[w].pc = "returned" /\ InterpreterNotStarted(w)) =>
            /\ sx[w].result.success = FALSE
            /\ sx[w].result.return_code = -1
            /\ sx[w].result.error # <<>>

\* C17: execute_script_file on a path that does not exist returns
\* success = false with a not-found error that names the path; the file is
\* not read or classified and no child is spawned.
C17_MissingFileIsNotRun ==
    \A w \in Workers :
        (sx[w].mode = "file" /\ sx[w].path \notin DOMAIN ScriptFiles) =>
            /\ sx[w].pc = "returned"
            /\ sx[w].result.success = FALSE
            /\ sx[w].result.return_code = -1
            /\ Has(sx[w].result.error, sx[w].path)
            /\ sx[w].spawned = <<>>
            /\ sx[w].script = <<>>
            /\ sx[w].ran = NotRun

C17_Witness ==
    \E w \in Workers :
        /\ sx[w].mode = "file"
        /\ sx[w].path = <<"gone", ".sh">>
        /\ sx[w].pc = "returned"
        /\ sx[w].result.success = FALSE

\* C21: for every interleaving of executions sharing the scratch directory, the
\* file an execution wrote stays there, holding that execution's script text and
\* written by nobody else, until that execution's interpreter has run on it; no
\* other execution overwrites or deletes it
C21_OnlyCreatorTouchesFile ==
    \A w \in Workers :
        (sx[w].mode = "content" /\ sx[w].pc = "dispatch")
            => /\ sx[w].path \in DOMAIN temp_files
               /\ temp_files[sx[w].path].owner = w
               /\ temp_files[sx[w].path].content = sx[w].script

\* the calls of execute_script_content and execute_dynamic_wrapper that are past
\* their one chance to invoke the process invoker
PastDispatch(w) ==
    sx[w].mode \in {"content", "wrapper"} /\ sx[w].pc \in {"cleanup", "returned"}

\* C23 as stated: each call to execute_script_content or execute_dynamic_wrapper
\* invokes the process invoker exactly once
C23_InvokedExactlyOnce ==
    \A w \in Workers : PastDispatch(w) => Len(sx[w].spawned) = 1

\* C23, amended: a call invokes the process invoker once when its temporary file
\* was written and not at all when the write failed, and never a second time,
\* whatever the one run reported
C23_InvokedOnceIfWritten ==
    \A w \in Workers :
        /\ Len(sx[w].spawned) <= 1
        /\ PastDispatch(w) =>
              Len(sx[w].spawned) = IF utf8_encodable(sx[w].script) THEN 1 ELSE 0

\* a call whose one run timed out has returned without a second run
C23_Witness ==
    \E w \in Workers :
        /\ sx[w].mode = "content"
        /\ sx[w].pc = "returned"
        /\ sx[w].result.return_code = -1
        /\ Len(sx[w].spawned) = 1

----------------------------------------------------------------------------
(* Claims about the SecurityManager's tokens, checked under SpecJwt *)

SignatureVerifies(tok) ==
    Len(tok) = 3 /\ tok[1] = "HS256"
                 /\ tok[3] = hmac_sha256(jwt_secret, tok[1], tok[2])
Expiry(tok) == json_loads(tok[2])["exp"]
HasExpiry(tok) == Len(tok) >= 2 /\ "exp" \in DOMAIN json_loads(tok[2])

\* C5: verify_jwt_token returns a payload only for a token whose signature
\* verifies under the configured secret and whose expiry lies strictly after
\* the current time; for a wrong secret, a broken structure or an expiry that
\* has been reached it returns None.
C5_PayloadOnlyIfSignedAndUnexpired ==
    check.op = "verify_jwt_token" =>
        /\ check.out # NonePayload =>
              /\ SignatureVerifies(check.token)
              /\ HasExpiry(check.token)
              /\ check.at < Expiry(check.token)
        /\ ~SignatureVerifies(check.token) => check.out = NonePayload
        /\ (HasExpiry(check.token) /\ Expiry(check.token) <= check.at)
              => check.out = NonePayload

\* the signature is good and the clock stands exactly at the expiry
C5_Witness ==
    /\ check.op = "verify_jwt_token"
    /\ SignatureVerifies(check.token)
    /\ Expiry(check.token) = check.at
    /\ check.out = NonePayload

\* C6 (as claimed): a token that generate_jwt_token made from a payload whose
\* exp already lay in the past is rejected by verify_jwt_token.
C6_PastExpiryIsRejected ==
    (/\ check.op = "verify_jwt_token"
     /\ gen.op = "generate_jwt_token"
     /\ check.token = gen.token
     /\ "exp" \in DOMAIN gen.payload
     /\ gen.payload["exp"] < gen.at) => check.out = NonePayload

\* C7: verify_api_key is true exactly when the token passes verify_jwt_token,
\* the api_key in its payload is the one supplied, and its type is "api_key".
C7_VerifyApiKeyIffAllThree ==
    check.op = "verify_api_key" =>
        LET payload == verify_jwt_token(check.token, check.at)
        IN  check.out =
              (/\ payload # NonePayload
               /\ Get(payload, "api_key", None) = check.api_key
               /\ Get(payload, "type", None) = "api_key")

\* a good token carrying the supplied key, of another type
C7_Witness ==
    /\ check.op = "verify_api_key"
    /\ verify_jwt_token(check.token, check.at) # NonePayload
    /\ Get(verify_jwt_token(check.token, check.at), "api_key", None) = check.api_key
    /\ Get(verify_jwt_token(check.token, check.at), "type", None) = "session"
    /\ check.out = FALSE

\* the capabilities a token's body lists, verified or not
TokenCapabilities(tok) ==
    IF Len(tok) >= 2 THEN Elements(Get(json_loads(tok[2]), "permissions", <<>>))
    ELSE {}

\* C8 (as claimed): validate_token_permissions is true iff every required
\* string is in the token's capability set, so with nothing required it is
\* true for every token passed in.
C8_TrueIffRequiredHeld ==
    check.op = "validate_token_permissions" =>
        (check.out <=>
            \A i \in 1..Len(check.required) :
                check.required[i] \in TokenCapabilities(check.token))

\* C8 (amended): validate_token_permissions is true iff the token passes
\* verify_jwt_token and every required string is in the permissions list of
\* the verified payload (none when the payload has no such list); with
\* nothing required it is true for the tokens that pass verify_jwt_token
\* and false for the others.
C8_TrueIffVerifiedAndRequiredHeld ==
    check.op = "validate_token_permissions" =>
        LET payload == verify_jwt_token(check.token, check.at)
        IN  check.out <=>
              /\ payload # NonePayload
              /\ \A i \in 1..Len(check.required) :
                    check.required[i] \in Elements(Get(payload, "permissions", <<>>))

\* nothing is required of a token that has expired, and the answer is false
C8_Witness ==
    /\ check.op = "validate_token_permissions"
    /\ check.required = <<>>
    /\ SignatureVerifies(check.token)
    /\ Expiry(check.token) <= check.at
    /\ check.out = FALSE

\* C9: verifying, before its expiry and under the same secret, the token that
\* generate_api_key returned gives a payload whose user_id, permissions and
\* api_key are the subject, the capability list and the returned api_key.
C9_ApiKeyRoundTrip ==
    (/\ gen.op = "generate_api_key"
     /\ check.op = "verify_jwt_token"
     /\ check.token = gen.token
     /\ check.at < Expiry(gen.token)) =>
        /\ check.out # NonePayload
        /\ check.out["user_id"] = gen.user_id
        /\ check.out["permissions"] = gen.permissions
        /\ check.out["api_key"] = gen.api_key

\* the last second before the expiry, with two capabilities
C9_Witness ==
    /\ gen.op = "generate_api_key"
    /\ check.op = "verify_jwt_token"
    /\ check.token = gen.token
    /\ check.at = Expiry(gen.token) - 1
    /\ Len(gen.permissions) = 2
    /\ check.out # NonePayload

\* C28: every token issued by generate_jwt_token has exp - iat equal to the
\* configured lifetime in seconds, whatever the clock does during the call
C28_ExpiryIsIssuedAtPlusLifetime ==
    gen.op = "generate_jwt_token" =>
        LET payload == json_loads(gen.token[2])
        IN  payload["exp"] - payload["iat"] = Lifetime

\* C29: the value verify_jwt_token returns tells the three rejection causes
\* apart: a rejection for a wrong signature, one for a corrupted structure and
\* one for expiry never return the same value
C29_RejectionCausesAreDistinct ==
    (token # NoToken /\ gen.op # "none") =>
        LET r1 == jwt_decode(token, jwt_secret, now)
            r2 == jwt_decode(gen.token, jwt_secret, now)
        IN  (r1.exc # "none" /\ r2.exc # "none" /\ r1.exc # r2.exc)
                => verify_jwt_token(token, now) # verify_jwt_token(gen.token, now)

----------------------------------------------------------------------------
(* Claims about the SecurityManager's encryption, checked under SpecCrypto *)

----------------------------------------------------------------------------
(* Claims about validate_command and the server, checked under SpecServer *)

AllWhitespace(text) == \A i \in 1..Len(text) : text[i] \in Whitespace
MatchesDenyList(text) ==
    \E i \in 1..Len(dangerous_patterns) : Has(lower(text), dangerous_patterns[i])

C20_NoCredentialNoEffect ==
    (request.route \in Routes /\ request.authorization # "valid") =>
        /\ response.status # 200
        /\ invoked = <<>>

----------------------------------------------------------------------------
(* Claims about the child's environment, checked under SpecEnv *)

\* C24: the environment given to the child is the invoking process's
\* environment with the overlay on top: it holds exactly the inherited and the
\* overlay names, every overlay name with the overlay's value, every other
\* inherited name with its inherited value, and os.environ is as it was before
\* the call
C24_ChildEnvironmentIsOverlaidCopy ==
    env_call.made =>
        /\ DOMAIN env_call.child = (DOMAIN env_call.before) \cup (DOMAIN env_call.env.vars)
        /\ \A k \in DOMAIN env_call.env.vars : env_call.child[k] = env_call.env.vars[k]
        /\ \A k \in (DOMAIN env_call.before) \ (DOMAIN env_call.env.vars) :
              env_call.child[k] = env_call.before[k]
        /\ environ = env_call.before

\* an overlay that overrides one inherited name, adds a new one and leaves a
\* third inherited name alone
C24_Witness ==
    /\ env_call.made
    /\ DOMAIN env_call.before = {"PATH", "LANG"}
    /\ DOMAIN env_call.env.vars = {"PATH", "HOME"}
    /\ env_call.env.vars["PATH"] # env_call.before["PATH"]
    /\ env_call.child["PATH"] = env_call.env.vars["PATH"]

----------------------------------------------------------------------------
(* Claims about Config, checked under SpecConfig *)

\* C25: reload is atomic for readers: whatever Config.get or Config.load hands
\* back while reload runs is a complete configuration, with its environment
\* overrides applied, never an absent or partly overridden one; and what reload
\* hands back is the complete configuration loaded from the path it was given
C25_ReloadIsAtomic ==
    \A t \in Threads :
        threads[t].pc = "returned" =>
            /\ threads[t].ret \in {complete(DefaultPath)}
                                  \cup {complete(path) : path \in ReloadPaths}
            /\ threads[t].op = "reload" => threads[t].ret = complete(threads[t].path)

----------------------------------------------------------------------------
(* Claims about classification, checked under SpecClassify *)

\* a first line that the classifiers take for an interpreter directive
Recognised(first_line) ==
    /\ Len(first_line) > 0
    /\ first_line[1] = "#!/"
    /\ \E name \in {<<"python">>, <<"ba", "sh">>, <<"sh">>, <<"power", "sh", "ell">>,
                    <<"pw", "sh">>} : Has(first_line, name)

ByExtension(ext) ==
    CASE ext = ".py" -> "python"
      [] ext \in {".sh", ".bash"} -> "shell"
      [] ext = ".ps1" -> "powershell"
      [] OTHER -> "shell"

\* the content heuristics in their order: python, then shell, then powershell
ByHeuristics(script) ==
    IF script[1][1] = "import " \/ HasAnywhere(script, <<"def ">>) THEN "python"
    ELSE IF script[1][1] \in {"#!", "#!/"} \/ HasAnywhere(script, <<"echo">>) THEN "shell"
    ELSE IF HasAnywhere(script, <<"Write-Host">>) \/ HasAnywhere(script, <<"Get-">>)
    THEN "powershell"
    ELSE "shell"

\* C26: classification goes by priority: a recognised directive on the first
\* line decides the kind, the same whatever the suffix and whatever the body;
\* without one a file goes by its suffix alone and inline text by the content
\* heuristics in the order python, shell, powershell, with shell for what
\* matches nothing; the kind is never the generic one
C26_ClassifiedByPriority ==
    classified.mode # "none" =>
        LET first_line == classified.script[1]
        IN  /\ classified.kind \in {"python", "shell", "powershell"}
            /\ Recognised(first_line) =>
                  /\ \A ext \in Suffixes :
                        detect_by_path(first_line, ext) = classified.kind
                  /\ \A body \in BodyLines :
                        detect_script_type_from_content(<<first_line, body>>)
                            = classified.kind
            /\ (~Recognised(first_line) /\ classified.mode = "file") =>
                  classified.kind = ByExtension(classified.ext)
            /\ (~Recognised(first_line) /\ classified.mode = "content") =>
                  classified.kind = ByHeuristics(classified.script)

\* a file with a bash directive and the suffix .py, over a body that defines a
\* python function, is classified as shell
C26_Witness ==
    /\ classified.mode = "file"
    /\ classified.script = << <<"#!/", "bin/", "ba", "sh">>, <<"def ", "f():">> >>
    /\ classified.ext = ".py"
    /\ classified.kind = "shell"

----------------------------------------------------------------------------
(* Claims about concurrent script-file requests, checked under SpecUpload *)

\* C30: for every interleaving of script-file requests, each request runs
\* exactly the text it uploaded and removes only the file it saved, also when
\* two requests upload under the same sanitised filename
C30_RunsAndRemovesOwnUpload ==
    \A h \in Workers :
        /\ handlers[h].pc \in {"remove", "responded"} =>
              handlers[h].ran = handlers[h].content
        /\ handlers[h].pc = "responded" => handlers[h].removed = h

====
